---- MODULE Spec2Model ----
(***************************************************************************)
(* Note-taking GraphQL API: the resolver layer (notes, note, createNote,   *)
(* updateNote, deleteNote) over the Note table of the storage layer.       *)
(***************************************************************************)
EXTENDS Integers, Sequences, FiniteSets, TLC

\* the server: the Note table, the clock, the latest response
VARIABLES store, prev, nextId, now, last, deleted, born
\* the client: NotesList state, the Apollo cache, the requests in flight
VARIABLES ui, cache, net, cev, sent
\* the position in the end-to-end scenario
VARIABLES pc

svars == <<store, prev, nextId, now, last, deleted, born>>
cvars == <<ui, cache, net, cev, sent>>
vars == <<svars, cvars, pc>>

(* ------------------------------ bounds -------------------------------- *)

\* number of ids the storage layer hands out in a run
MaxId == 2
\* last value of the clock
MaxTime == 1

(* ------------------------- optional values ---------------------------- *)

\* an absent (undefined / null) argument or result
None == [some |-> FALSE]
Some(x) == [some |-> TRUE, v |-> x]

(* ------------------------------ text ---------------------------------- *)

\* strings are sequences of characters
Titles == {<<>>, <<"a">>, <<"A", "b">>}
Contents == {<<>>, <<"B">>}
Searches == {<<>>, <<"a">>, <<"B">>, <<"a", "B">>}

Lower(c) == CASE c = "A" -> "a" [] c = "B" -> "b" [] OTHER -> c
toLower(s) == [i \in 1..Len(s) |-> Lower(s[i])]

\* LIKE '%needle%'
contains(hay, needle) ==
  \E i \in 0..(Len(hay) - Len(needle)) : SubSeq(hay, i + 1, i + Len(needle)) = needle

\* { contains: needle, mode: 'insensitive' }
containsInsensitive(hay, needle) == contains(toLower(hay), toLower(needle))

\* JavaScript truthiness of an optional string: absent and "" are falsy
Truthy(s) == s.some /\ s.v # <<>>

(* --------------------------- storage layer ---------------------------- *)

Ids == 1..MaxId

IdsOf(rows) == {r.id : r \in rows}
Row(rows, id) == CHOOSE r \in rows : r.id = id

\* prisma.note.findUnique({ where: { id } })
findUnique(rows, id) ==
  IF id \in IdsOf(rows) THEN Some(Row(rows, id)) ELSE None

\* prisma.note.create({ data }): the storage layer assigns id and both timestamps
create(rows, id, t, data) ==
  rows \cup {[id |-> id, title |-> data.title, content |-> data.content,
              createdAt |-> t, updatedAt |-> t]}

\* prisma.note.update({ where: { id }, data }): the fields of data that are
\* present replace the stored ones, updatedAt is refreshed
update(rows, id, t, data) ==
  {IF r.id = id
     THEN [r EXCEPT !.title = IF data.title.some THEN data.title.v ELSE @,
                    !.content = IF data.content.some THEN data.content.v ELSE @,
                    !.updatedAt = t]
     ELSE r : r \in rows}

\* prisma.note.delete({ where: { id } })
delete(rows, id) == {r \in rows : r.id # id}

\* every order of a set of rows
Orders(rows) ==
  {s \in [1..Cardinality(rows) -> rows] : \A i, j \in DOMAIN s : i # j => s[i] # s[j]}

\* an ascending order by createdAt
orderByCreatedAtAsc(s) == \A i, j \in DOMAIN s : i < j => s[i].createdAt <= s[j].createdAt

\* orderBy: { createdAt: 'desc' }
orderByCreatedAtDesc(s) == \A i, j \in DOMAIN s : i < j => s[i].createdAt >= s[j].createdAt

(* --------------------------- resolver layer --------------------------- *)

Opt(S) == {None} \cup {Some(x) : x \in S}

\* the response of the latest operation, with the arguments it was called with
Idle ==
  [op |-> "none", id |-> 0, title |-> None, content |-> None,
   search |-> None, ok |-> TRUE, err |-> "", note |-> None, list |-> <<>>]

\* a where clause that looks at the title alone
notesWhereTitleOnly(search, r) ==
  IF Truthy(search) THEN containsInsensitive(r.title, search.v) ELSE TRUE

\* where: search ? { OR: [title contains, content contains] } : {}
notesWhere(search, r) ==
  IF Truthy(search)
    THEN \/ containsInsensitive(r.title, search.v)
         \/ containsInsensitive(r.content, search.v)
    ELSE TRUE

\* prisma.note.findMany({ where, orderBy }): the possible results
findMany(rows, search) ==
  {s \in Orders({r \in rows : notesWhere(search, r)}) : orderByCreatedAtDesc(s)}

\* create data with the title written to both fields
createDataTitleTwice(title, content) == [title |-> title, content |-> title]

\* data: { title, content }
createData(title, content) == [title |-> title, content |-> content]

\* update data that writes "" to the content when none is supplied
updateDataOverwrite(title, content) ==
  [title |-> IF Truthy(title) THEN title ELSE None,
   content |-> IF Truthy(content) THEN content ELSE Some(<<>>)]

\* update data that applies every supplied field, the empty string included
updateDataPresent(title, content) == [title |-> title, content |-> content]

\* data: { ...(title && { title }), ...(content && { content }) }
updateData(title, content) ==
  [title |-> IF Truthy(title) THEN title ELSE None,
   content |-> IF Truthy(content) THEN content ELSE None]

\* Query.notes
notes(search) ==
  /\ \E r \in findMany(store, search) :
       last' = [Idle EXCEPT !.op = "notes", !.search = search, !.list = r]
  /\ prev' = store
  /\ UNCHANGED <<store, nextId, now, deleted, born>>

\* a note query that fails on a missing id (findUniqueOrThrow)
noteOrThrow(id) ==
  /\ last' = IF id \in IdsOf(store)
               THEN [Idle EXCEPT !.op = "note", !.id = id, !.note = findUnique(store, id)]
               ELSE [Idle EXCEPT !.op = "note", !.id = id, !.ok = FALSE, !.err = "NotFound"]
  /\ prev' = store
  /\ UNCHANGED <<store, nextId, now, deleted, born>>

\* Query.note
note(id) ==
  /\ last' = [Idle EXCEPT !.op = "note", !.id = id, !.note = findUnique(store, id)]
  /\ prev' = store
  /\ UNCHANGED <<store, nextId, now, deleted, born>>

\* Mutation.createNote(title: String!, content: String!)
createNote(title, content) ==
  /\ nextId <= MaxId
  /\ IF title.some /\ content.some
       THEN /\ store' = create(store, nextId, now, createData(title.v, content.v))
            /\ nextId' = nextId + 1
            /\ born' = born @@ (nextId :> now)
            /\ last' = [Idle EXCEPT !.op = "createNote", !.title = title,
                                    !.content = content,
                                    !.note = findUnique(store', nextId)]
       ELSE /\ last' = [Idle EXCEPT !.op = "createNote", !.title = title,
                                    !.content = content, !.ok = FALSE,
                                    !.err = "Validation"]
            /\ UNCHANGED <<store, nextId, born>>
  /\ prev' = store
  /\ UNCHANGED <<now, deleted>>

\* an update that writes the row when the id has none (upsert)
updateNoteUpsert(id, title, content) ==
  /\ store' = IF id \in IdsOf(store)
                THEN update(store, id, now, updateData(title, content))
                ELSE create(store, id, now,
                            [title |-> IF title.some THEN title.v ELSE <<>>,
                             content |-> IF content.some THEN content.v ELSE <<>>])
  /\ last' = [Idle EXCEPT !.op = "updateNote", !.id = id, !.title = title,
                          !.content = content, !.note = findUnique(store', id)]
  /\ born' = IF id \in DOMAIN born THEN born ELSE born @@ (id :> now)
  /\ prev' = store
  /\ UNCHANGED <<nextId, now, deleted>>

\* an update that deletes the row and creates it again under the same id
updateNoteRecreate(id, title, content) ==
  /\ IF id \in IdsOf(store)
       THEN /\ store' = create(delete(store, id), id, now,
                               [title |-> IF Truthy(title) THEN title.v
                                                           ELSE Row(store, id).title,
                                content |-> IF Truthy(content) THEN content.v
                                                               ELSE Row(store, id).content])
            /\ last' = [Idle EXCEPT !.op = "updateNote", !.id = id, !.title = title,
                                    !.content = content,
                                    !.note = findUnique(store', id)]
       ELSE /\ last' = [Idle EXCEPT !.op = "updateNote", !.id = id, !.title = title,
                                    !.content = content, !.ok = FALSE,
                                    !.err = "NotFound"]
            /\ UNCHANGED store
  /\ prev' = store
  /\ UNCHANGED <<nextId, now, deleted, born>>

\* an update that returns the stored row untouched when no field is to be written
updateNoteSkipEmpty(id, title, content) ==
  /\ IF id \in IdsOf(store)
       THEN /\ store' = IF Truthy(title) \/ Truthy(content)
                          THEN update(store, id, now, updateData(title, content))
                          ELSE store
            /\ last' = [Idle EXCEPT !.op = "updateNote", !.id = id, !.title = title,
                                    !.content = content,
                                    !.note = findUnique(store', id)]
       ELSE /\ last' = [Idle EXCEPT !.op = "updateNote", !.id = id, !.title = title,
                                    !.content = content, !.ok = FALSE,
                                    !.err = "NotFound"]
            /\ UNCHANGED store
  /\ prev' = store
  /\ UNCHANGED <<nextId, now, deleted, born>>

\* Mutation.updateNote(id: ID!, title: String, content: String)
updateNote(id, title, content) ==
  /\ IF id \in IdsOf(store)
       THEN /\ store' = update(store, id, now, updateData(title, content))
            /\ last' = [Idle EXCEPT !.op = "updateNote", !.id = id, !.title = title,
                                    !.content = content,
                                    !.note = findUnique(store', id)]
       ELSE /\ last' = [Idle EXCEPT !.op = "updateNote", !.id = id, !.title = title,
                                    !.content = content, !.ok = FALSE,
                                    !.err = "NotFound"]
            /\ UNCHANGED store
  /\ prev' = store
  /\ UNCHANGED <<nextId, now, deleted, born>>

\* a delete that answers true and leaves the row in storage
deleteNoteKeep(id) ==
  /\ IF id \in IdsOf(store)
       THEN /\ deleted' = deleted \cup {id}
            /\ last' = [Idle EXCEPT !.op = "deleteNote", !.id = id]
       ELSE /\ last' = [Idle EXCEPT !.op = "deleteNote", !.id = id, !.ok = FALSE,
                                    !.err = "NotFound"]
            /\ UNCHANGED deleted
  /\ prev' = store
  /\ UNCHANGED <<store, nextId, now, born>>

\* a delete that answers true whether or not a row matched (deleteMany)
deleteNoteMany(id) ==
  /\ store' = delete(store, id)
  /\ deleted' = IF id \in IdsOf(store) THEN deleted \cup {id} ELSE deleted
  /\ born' = [i \in DOMAIN born \ {id} |-> born[i]]
  /\ last' = [Idle EXCEPT !.op = "deleteNote", !.id = id]
  /\ prev' = store
  /\ UNCHANGED <<nextId, now>>

\* Mutation.deleteNote(id: ID!)
deleteNote(id) ==
  /\ IF id \in IdsOf(store)
       THEN /\ store' = delete(store, id)
            /\ deleted' = deleted \cup {id}
            /\ born' = [i \in DOMAIN born \ {id} |-> born[i]]
            /\ last' = [Idle EXCEPT !.op = "deleteNote", !.id = id]
       ELSE /\ last' = [Idle EXCEPT !.op = "deleteNote", !.id = id, !.ok = FALSE,
                                    !.err = "NotFound"]
            /\ UNCHANGED <<store, deleted, born>>
  /\ prev' = store
  /\ UNCHANGED <<nextId, now>>

\* the clock advances between requests
Tick ==
  /\ now < MaxTime
  /\ now' = now + 1
  /\ UNCHANGED <<store, prev, nextId, last, deleted, born>>

ServerInit ==
  /\ store = {}
  /\ prev = {}
  /\ nextId = 1
  /\ now = 0
  /\ last = Idle
  /\ deleted = {}
  /\ born = <<>>

(* ------------------------------ client -------------------------------- *)

\* requests in flight at once
MaxInFlight == 2

\* mutations the user submits in one session
MaxSent == 2

\* what the user types into the search box and the forms
TypedSearches == {<<>>, <<"B">>}
FormTitles == {<<"a">>, <<"A", "b">>}
FormContents == {<<>>}

\* a request, and the response the server's latest operation l gives to it
Req(op, id, title, content, search) ==
  [kind |-> "req", op |-> op, id |-> id, title |-> title, content |-> content,
   search |-> search]
Res(m, l) ==
  [kind |-> "res", op |-> m.op, id |-> m.id, search |-> m.search, ok |-> l.ok,
   note |-> l.note, list |-> l.list]
InFlight(op) == {m \in net : m.op = op}
Requests(op) == {m \in InFlight(op) : m.kind = "req"}
Mutations == {"createNote", "updateNote", "deleteNote"}

\* the latest mutation that settled, and the note it was about
Event(kind, id) == [kind |-> kind, id |-> id]

\* variables: { search: search || undefined }
notesKey(search) == IF search # <<>> THEN Some(search) ELSE None

\* a response written under the search term of the moment it arrives
recvKeyCurrent(term, search) == notesKey(term)

\* the cache field of a list response: notes(variables of its request)
recvKey(term, search) == search

\* InMemoryCache: the Note objects of a result, normalized by id
writeEntities(c, ns) ==
  [c EXCEPT !.notes = [i \in {n.id : n \in ns} |-> CHOOSE n \in ns : n.id = i] @@ @]

\* useQuery(GET_NOTES): the result of the request for search is stored under
\* its field key
writeNotes(c, key, search, list) ==
  [writeEntities(c, {list[i] : i \in DOMAIN list})
     EXCEPT !.lists = (key :> [refs |-> [i \in DOMAIN list |-> list[i].id],
                               for |-> search]) @@ @]

\* useQuery(GET_NOTE): the result, a reference or null, is stored under note(id)
writeNote(c, id, n) ==
  [(IF n.some THEN writeEntities(c, {n.v}) ELSE c)
     EXCEPT !.note = (id :> (IF n.some THEN Some(n.v.id) ELSE None)) @@ @]

\* a create update that appends the new reference
createNoteAppend(c, n) ==
  [writeEntities(c, {n})
     EXCEPT !.lists = [k \in DOMAIN @ |-> [@[k] EXCEPT !.refs = Append(@, n.id)]]]

\* useCreateNote update: cache.modify prepends the new reference to every
\* cached notes field
createNoteUpdate(c, n) ==
  [writeEntities(c, {n})
     EXCEPT !.lists = [k \in DOMAIN @ |-> [@[k] EXCEPT !.refs = <<n.id>> \o @]]]

\* an update result whose updatedAt is not selected
updateNoteWriteStale(c, n) ==
  [c EXCEPT !.notes = [i \in DOMAIN @ |->
     IF i = n.id THEN [@[i] EXCEPT !.title = n.title, !.content = n.content]
                 ELSE @[i]]]

\* useUpdateNote: the result { id, title, content, updatedAt } is merged into
\* the normalized Note object
updateNoteWrite(c, n) ==
  [c EXCEPT !.notes = [i \in DOMAIN @ |->
     IF i = n.id THEN [@[i] EXCEPT !.title = n.title, !.content = n.content,
                                   !.updatedAt = n.updatedAt]
                 ELSE @[i]]]

Filter(refs, id) == SelectSeq(refs, LAMBDA x : x # id)

\* a delete update that filters the all-notes field alone
deleteNoteUpdateAll(c, id) ==
  [c EXCEPT !.lists = [k \in DOMAIN @ |->
     IF k = None THEN [@[k] EXCEPT !.refs = Filter(@, id)] ELSE @[k]]]

\* useDeleteNote update: cache.modify filters the id out of every cached
\* notes field
deleteNoteUpdate(c, id) ==
  [c EXCEPT !.lists = [k \in DOMAIN @ |-> [@[k] EXCEPT !.refs = Filter(@, id)]]]

\* a form that closes whether or not the create succeeded
closeFormAlways(ok, form) == FALSE

\* handleCreateNote: setShowCreateForm(false) after the awaited mutation
afterCreate(ok, form) == IF ok THEN FALSE ELSE form

\* handleUpdateNote: setEditingNote(null) after the awaited mutation
afterUpdate(ok, editing) == IF ok THEN None ELSE editing

\* a note query that is sent for every id
useNoteNoSkip(id) == FALSE

\* skip: !id
useNoteSkip(id) == id = 0

\* const { loading, error, data } = useNotes(searchTerm)
Displayed ==
  IF notesKey(ui.searchTerm) \in DOMAIN cache.lists
    THEN cache.lists[notesKey(ui.searchTerm)].refs
    ELSE <<>>
Range(f) == {f[i] : i \in DOMAIN f}

\* NotesList after mount with an empty cache: the all-notes query is in flight
ClientInit ==
  /\ ui = [searchTerm |-> <<>>, showCreateForm |-> FALSE, editingNote |-> None,
           noteId |-> 0, noteError |-> FALSE]
  /\ cache = [lists |-> <<>>, notes |-> <<>>, note |-> <<>>]
  /\ net = {Req("notes", 0, None, None, None)}
  /\ cev = Event("none", 0)
  /\ sent = 0

\* onChange: setSearchTerm, and useNotes fetches what the cache does not hold
setSearchTerm(term) ==
  /\ term # ui.searchTerm
  /\ ui' = [ui EXCEPT !.searchTerm = term]
  /\ LET k == notesKey(term) IN
       IF k \in DOMAIN cache.lists \/ \E m \in InFlight("notes") : m.search = k
         THEN net' = net
         ELSE /\ Cardinality(net) < MaxInFlight
              /\ net' = net \cup {Req("notes", 0, None, None, k)}
  /\ UNCHANGED <<cache, cev, sent>>

\* a list response arrives; one for a term that is no longer the current one
\* is written to its own field or discarded
RecvNotes ==
  \E m \in InFlight("notes") :
    /\ m.kind = "res"
    /\ \/ cache' = writeNotes(cache, recvKey(ui.searchTerm, m.search), m.search, m.list)
       \/ m.search # notesKey(ui.searchTerm) /\ cache' = cache
    /\ net' = net \ {m}
      /\ UNCHANGED <<ui, cev, sent>>

\* onClick: setShowCreateForm(true)
OpenCreateForm ==
  /\ ~ui.showCreateForm
  /\ ui' = [ui EXCEPT !.showCreateForm = TRUE]
  /\ UNCHANGED <<cache, net, cev, sent>>

\* handleEditNote
handleEditNote(id) ==
  /\ id \in Range(Displayed)
  /\ ui.editingNote # Some(id)
  /\ ui' = [ui EXCEPT !.editingNote = Some(id)]
  /\ UNCHANGED <<cache, net, cev, sent>>

\* handleCancelEdit
handleCancelEdit ==
  /\ ui.showCreateForm \/ ui.editingNote.some
  /\ ui' = [ui EXCEPT !.showCreateForm = FALSE, !.editingNote = None]
  /\ UNCHANGED <<cache, net, cev, sent>>

\* handleCreateNote, up to the await
handleCreateNote(title, content) ==
  /\ ui.showCreateForm
  /\ InFlight("createNote") = {}
  /\ nextId <= MaxId
  /\ Cardinality(net) < MaxInFlight
  /\ net' = net \cup {Req("createNote", 0, Some(title), Some(content), None)}
  /\ sent < MaxSent
  /\ sent' = sent + 1
  /\ UNCHANGED <<ui, cache, cev>>

\* handleUpdateNote, up to the await
handleUpdateNote(title, content) ==
  /\ ui.editingNote.some
  /\ InFlight("updateNote") = {}
  /\ Cardinality(net) < MaxInFlight
  /\ net' = net \cup {Req("updateNote", ui.editingNote.v, Some(title), Some(content), None)}
  /\ sent < MaxSent
  /\ sent' = sent + 1
  /\ UNCHANGED <<ui, cache, cev>>

\* handleDeleteNote, up to the await
handleDeleteNote(id) ==
  /\ id \in Range(Displayed)
  /\ InFlight("deleteNote") = {}
  /\ Cardinality(net) < MaxInFlight
  /\ net' = net \cup {Req("deleteNote", id, None, None, None)}
  /\ sent < MaxSent
  /\ sent' = sent + 1
  /\ UNCHANGED <<ui, cache, cev>>

\* the awaited createNote settles: the update function runs on success, the
\* catch block on failure
CreateSettled(m, ok) ==
  /\ cache' = IF ok THEN createNoteUpdate(cache, m.note.v) ELSE cache
  /\ ui' = [ui EXCEPT !.showCreateForm = afterCreate(ok, @)]
  /\ cev' = Event(IF ok THEN "createOk" ELSE "createFail",
                  IF ok THEN m.note.v.id ELSE 0)

\* the awaited updateNote settles
UpdateSettled(m, ok) ==
  /\ cache' = IF ok THEN updateNoteWrite(cache, m.note.v) ELSE cache
  /\ ui' = [ui EXCEPT !.editingNote = afterUpdate(ok, @)]
  /\ cev' = Event(IF ok THEN "updateOk" ELSE "updateFail", m.id)

\* the awaited deleteNote settles
DeleteSettled(m, ok) ==
  /\ cache' = IF ok THEN deleteNoteUpdate(cache, m.id) ELSE cache
  /\ ui' = ui
  /\ cev' = Event(IF ok THEN "deleteOk" ELSE "deleteFail", m.id)

Settled(m, ok) ==
  /\ net' = net \ {m}
  /\ UNCHANGED sent
  /\ CASE m.op = "createNote" -> CreateSettled(m, ok)
       [] m.op = "updateNote" -> UpdateSettled(m, ok)
       [] m.op = "deleteNote" -> DeleteSettled(m, ok)

\* the response of a mutation arrives
RecvMutation == \E m \in net : m.kind = "res" /\ m.op \in Mutations /\ Settled(m, m.ok)

\* the request of a mutation or its response is lost on the way
TransportError == \E m \in net : m.op \in Mutations /\ Settled(m, FALSE)

\* the component that calls useNote is given an id
SelectNote(id) ==
  /\ id # ui.noteId
  /\ ui' = [ui EXCEPT !.noteId = id, !.noteError = FALSE]
  /\ IF useNoteSkip(id) \/ id \in DOMAIN cache.note
        \/ \E m \in InFlight("note") : m.id = id
       THEN net' = net
       ELSE /\ Cardinality(net) < MaxInFlight
            /\ net' = net \cup {Req("note", id, None, None, None)}
  /\ UNCHANGED <<cache, cev, sent>>

\* a note response arrives
RecvNote ==
  \E m \in InFlight("note") :
    /\ m.kind = "res"
    /\ cache' = writeNote(cache, m.id, m.note)
    /\ net' = net \ {m}
      /\ UNCHANGED <<ui, cev, sent>>

\* a note request or its response is lost on the way
NoteTransportError ==
  \E m \in InFlight("note") :
    /\ ui' = [ui EXCEPT !.noteError = (m.id = ui.noteId)]
    /\ net' = net \ {m}
      /\ UNCHANGED <<cache, cev, sent>>

\* the server takes a request and answers it
Answer(m) ==
  /\ m \in net /\ m.kind = "req"
  /\ net' = (net \ {m}) \cup {Res(m, last')}
  /\ UNCHANGED <<ui, cache, cev, sent>>
ServeNotes == \E m \in Requests("notes") : notes(m.search) /\ Answer(m)
ServeNote == \E m \in Requests("note") : note(m.id) /\ Answer(m)
ServeCreate == \E m \in Requests("createNote") : createNote(m.title, m.content) /\ Answer(m)
ServeUpdate ==
  \E m \in Requests("updateNote") : updateNote(m.id, m.title, m.content) /\ Answer(m)
ServeDelete == \E m \in Requests("deleteNote") : deleteNote(m.id) /\ Answer(m)

\* the list view: NotesList with its three mutations
ClientNext ==
  \/ (\E term \in TypedSearches : setSearchTerm(term)) /\ UNCHANGED <<svars, pc>>
  \/ RecvNotes /\ UNCHANGED <<svars, pc>>
  \/ OpenCreateForm /\ UNCHANGED <<svars, pc>>
  \/ (\E id \in Ids : handleEditNote(id)) /\ UNCHANGED <<svars, pc>>
  \/ handleCancelEdit /\ UNCHANGED <<svars, pc>>
  \/ (\E title \in FormTitles, content \in FormContents : handleCreateNote(title, content))
       /\ UNCHANGED <<svars, pc>>
  \/ (\E title \in FormTitles, content \in FormContents : handleUpdateNote(title, content))
       /\ UNCHANGED <<svars, pc>>
  \/ (\E id \in Ids : handleDeleteNote(id)) /\ UNCHANGED <<svars, pc>>
  \/ RecvMutation /\ UNCHANGED <<svars, pc>>
  \/ TransportError /\ UNCHANGED <<svars, pc>>
  \/ ServeNotes /\ UNCHANGED pc
  \/ ServeCreate /\ UNCHANGED pc
  \/ ServeUpdate /\ UNCHANGED pc
  \/ ServeDelete /\ UNCHANGED pc

\* the all-notes list next to a component that reads one note with useNote
DetailNext ==
  \/ (\E id \in {0} \cup Ids : SelectNote(id)) /\ UNCHANGED <<svars, pc>>
  \/ RecvNote /\ UNCHANGED <<svars, pc>>
  \/ NoteTransportError /\ UNCHANGED <<svars, pc>>
  \/ RecvNotes /\ UNCHANGED <<svars, pc>>
  \/ OpenCreateForm /\ UNCHANGED <<svars, pc>>
  \/ (\E id \in Ids : handleEditNote(id)) /\ UNCHANGED <<svars, pc>>
  \/ (\E title \in FormTitles, content \in FormContents : handleCreateNote(title, content))
       /\ UNCHANGED <<svars, pc>>
  \/ (\E title \in FormTitles, content \in FormContents : handleUpdateNote(title, content))
       /\ UNCHANGED <<svars, pc>>
  \/ (\E id \in Ids : handleDeleteNote(id)) /\ UNCHANGED <<svars, pc>>
  \/ RecvMutation /\ UNCHANGED <<svars, pc>>
  \/ ServeNotes /\ UNCHANGED pc
  \/ ServeNote /\ UNCHANGED pc
  \/ ServeCreate /\ UNCHANGED pc
  \/ ServeUpdate /\ UNCHANGED pc
  \/ ServeDelete /\ UNCHANGED pc

Init == ServerInit /\ ClientInit /\ pc = 0

\* the database after the seed script has run, with one note in it, at a later
\* instant
SeedNote ==
  [id |-> 1, title |-> <<"a">>, content |-> <<"B">>, createdAt |-> 0, updatedAt |-> 0]
SeededInit ==
  /\ store = {SeedNote}
  /\ prev = {}
  /\ nextId = 2
  /\ now = MaxTime
  /\ last = Idle
  /\ deleted = {}
  /\ born = (1 :> 0)
InitClient == SeededInit /\ ClientInit /\ pc = 0

SpecClient == InitClient /\ [][ClientNext]_vars
SpecDetail == InitClient /\ [][DetailNext]_vars

Next ==
  \/ (\E search \in Opt(Searches) : notes(search)) /\ UNCHANGED <<cvars, pc>>
  \/ (\E id \in Ids : note(id)) /\ UNCHANGED <<cvars, pc>>
  \/ (\E title \in Opt(Titles), content \in Opt(Contents) : createNote(title, content))
       /\ UNCHANGED <<cvars, pc>>
  \/ (\E id \in Ids, title \in Opt(Titles), content \in Opt(Contents) :
         updateNote(id, title, content)) /\ UNCHANGED <<cvars, pc>>
  \/ (\E id \in Ids : deleteNote(id)) /\ UNCHANGED <<cvars, pc>>
  \/ Tick /\ UNCHANGED <<cvars, pc>>

Spec == Init /\ [][Next]_vars

(* ------------------------------ the race ------------------------------ *)

\* a second seed note
SeedNote2 ==
  [id |-> 2, title |-> <<"A", "b">>, content |-> <<>>, createdAt |-> 0, updatedAt |-> 0]
RaceStore == {SeedNote, SeedNote2}

\* two clients have sent updateNote and deleteNote for the same existing id,
\* and the server has taken neither yet
RaceInit ==
  /\ store = RaceStore
  /\ prev = {}
  /\ nextId = 3
  /\ now = 0
  /\ last = Idle
  /\ deleted = {}
  /\ born = [i \in IdsOf(RaceStore) |-> 0]
  /\ \E id \in IdsOf(RaceStore), title \in Opt(Titles), content \in Opt(Contents) :
       /\ net = {Req("updateNote", id, title, content, None),
                 Req("deleteNote", id, None, None, None)}
       /\ ui = [searchTerm |-> <<>>, showCreateForm |-> FALSE, editingNote |-> Some(id),
                noteId |-> 0, noteError |-> FALSE]
  /\ cache = [lists |-> <<>>, notes |-> <<>>, note |-> <<>>]
  /\ cev = Event("none", 0)
  /\ sent = 2
  /\ pc = 0

\* the server takes the two requests in either order
RaceNext ==
  \/ ServeUpdate /\ UNCHANGED pc
  \/ ServeDelete /\ UNCHANGED pc
  \/ Tick /\ UNCHANGED <<cvars, pc>>

SpecRace == RaceInit /\ [][RaceNext]_vars

(* --------------------------- the scenario ----------------------------- *)

\* the texts of the end-to-end scenario
Title1 == <<"a">>
Title2 == <<"A", "b">>
Body1 == <<"B">>
Body2 == <<"b">>
Body1Updated == <<"B", "a">>

\* the mutations, in order; a query may be sent and the clock may advance
\* between any two of them
ScnCreateA == pc = 0 /\ createNote(Some(Title1), Some(Body1)) /\ pc' = 1
ScnCreateB == pc = 1 /\ createNote(Some(Title2), Some(Body2)) /\ pc' = 2
ScnUpdateA == pc = 2 /\ updateNote(1, None, Some(Body1Updated)) /\ pc' = 3
ScnDeleteB == pc = 3 /\ deleteNote(2) /\ pc' = 4
ScnNotes == \E search \in Opt(Searches) : notes(search)
ScnNote == \E id \in Ids : note(id)

ScenarioNext ==
  \/ ScnCreateA /\ UNCHANGED cvars
  \/ ScnCreateB /\ UNCHANGED cvars
  \/ ScnUpdateA /\ UNCHANGED cvars
  \/ ScnDeleteB /\ UNCHANGED cvars
  \/ ScnNotes /\ UNCHANGED <<cvars, pc>>
  \/ ScnNote /\ UNCHANGED <<cvars, pc>>
  \/ Tick /\ UNCHANGED <<cvars, pc>>

SpecScenario == Init /\ [][ScenarioNext]_vars

(* ------------------------------ claims -------------------------------- *)

\* the stored row the latest operation was aimed at, before and after it
Before == findUnique(prev, last.id)
After == findUnique(store, last.id)
ListIds(l) == {l[i].id : i \in DOMAIN l}

\* C1: once deleteNote(id) has succeeded, note(id) is absent and id occurs in
\* no result of notes() or notes(search), whatever operations follow.
C1_DeletedNeverRead ==
  \A id \in deleted :
    /\ findUnique(store, id) = None
    /\ \A s \in Opt(Searches) : \A l \in findMany(store, s) : id \notin ListIds(l)
    /\ (last.op = "note" /\ last.id = id) => (last.ok /\ last.note = None)
    /\ last.op = "notes" => id \notin ListIds(last.list)

C1_Witness ==
  /\ \E id \in deleted : last.op = "note" /\ last.id = id
  /\ store # {}

\* C2: right after a successful createNote(title, content) returning N,
\* note(N.id) is a Note with that title and content and createdAt = updatedAt.
C2_CreateThenRead ==
  (last.op = "createNote" /\ last.ok) =>
    /\ last.note.some
    /\ LET r == findUnique(store, last.note.v.id) IN
         /\ r.some
         /\ r.v.title = last.title.v
         /\ r.v.content = last.content.v
         /\ r.v.createdAt = r.v.updatedAt

C2_Witness ==
  /\ last.op = "createNote" /\ last.ok
  /\ last.title.v # <<>> /\ last.content.v # <<>>
  /\ Cardinality(store) = 2

\* the latest operation was a successful updateNote
Updated == last.op = "updateNote" /\ last.ok /\ Before.some /\ After.some

\* C3 as stated: after a successful title-only update with a non-empty T the
\* title is T, content and createdAt are as before and updatedAt is strictly
\* greater than before; symmetrically for a content-only update.
C3_Original ==
  Updated =>
    /\ (Truthy(last.title) /\ ~last.content.some) =>
         /\ After.v.title = last.title.v
         /\ After.v.content = Before.v.content
         /\ After.v.createdAt = Before.v.createdAt
         /\ After.v.updatedAt > Before.v.updatedAt
    /\ (Truthy(last.content) /\ ~last.title.some) =>
         /\ After.v.content = last.content.v
         /\ After.v.title = Before.v.title
         /\ After.v.createdAt = Before.v.createdAt
         /\ After.v.updatedAt > Before.v.updatedAt

\* C3 (amended): after a successful title-only update with a non-empty T the
\* title is T, content and createdAt are as before and updatedAt is not less
\* than before; symmetrically for a content-only update.
C3_PartialUpdate ==
  Updated =>
    /\ (Truthy(last.title) /\ ~last.content.some) =>
         /\ After.v.title = last.title.v
         /\ After.v.content = Before.v.content
         /\ After.v.createdAt = Before.v.createdAt
         /\ After.v.updatedAt >= Before.v.updatedAt
    /\ (Truthy(last.content) /\ ~last.title.some) =>
         /\ After.v.content = last.content.v
         /\ After.v.title = Before.v.title
         /\ After.v.createdAt = Before.v.createdAt
         /\ After.v.updatedAt >= Before.v.updatedAt

C3_Witness ==
  /\ Updated
  /\ Truthy(last.title) /\ ~last.content.some
  /\ Before.v.title # <<>> /\ Before.v.title # last.title.v
  /\ Before.v.content # <<>>
  /\ After.v.updatedAt > Before.v.updatedAt

\* C4: updateNote with title "" leaves the stored title unchanged, content ""
\* leaves the stored content unchanged, and a non-empty field supplied in the
\* same call is applied.
C4_EmptyStringIgnored ==
  Updated =>
    /\ last.title = Some(<<>>) => After.v.title = Before.v.title
    /\ last.content = Some(<<>>) => After.v.content = Before.v.content
    /\ (last.title = Some(<<>>) /\ Truthy(last.content)) =>
         After.v.content = last.content.v
    /\ (last.content = Some(<<>>) /\ Truthy(last.title)) =>
         After.v.title = last.title.v

C4_Witness ==
  /\ Updated
  /\ last.title = Some(<<>>) /\ Truthy(last.content)
  /\ Before.v.title # <<>>
  /\ Before.v.content # last.content.v

\* s occurs in hay as a substring, letter case ignored
HasSubstrCI(hay, s) ==
  \E i \in 1..(Len(hay) - Len(s) + 1) :
    \A k \in 1..Len(s) : Lower(hay[i + k - 1]) = Lower(s[k])

\* the Notes a search value selects
Selected(rows, s) ==
  IF s.some /\ s.v # <<>>
    THEN {r \in rows : HasSubstrCI(r.title, s.v) \/ HasSubstrCI(r.content, s.v)}
    ELSE rows

\* l lists exactly the Notes s selects, each once, newest first
ExactList(l, rows, s) ==
  /\ {l[i] : i \in DOMAIN l} = Selected(rows, s)
  /\ Len(l) = Cardinality(Selected(rows, s))
  /\ \A i \in 1..(Len(l) - 1) : l[i].createdAt >= l[i + 1].createdAt

\* C5: notes(s) with s non-empty returns exactly the Notes whose title or
\* content contains s case-insensitively, notes() with s absent or empty
\* returns all Notes, and the result is ordered by createdAt descending.
C5_SearchExact ==
  /\ last.op = "notes" => ExactList(last.list, store, last.search)
  /\ \A s \in Opt(Searches) : \A l \in findMany(store, s) : ExactList(l, store, s)

C5_Witness ==
  /\ last.op = "notes"
  /\ last.search = Some(<<"a", "B">>)
  /\ Len(last.list) = 1
  /\ Cardinality(store) = 2

\* C6: deleteNote(id) on an id with no matching Note fails with a not-found
\* error and leaves every stored Note unchanged, also after an earlier
\* successful deleteNote of the same id.
C6_DeleteMissingFails ==
  (last.op = "deleteNote" /\ last.id \notin IdsOf(prev)) =>
    /\ ~last.ok
    /\ last.err = "NotFound"
    /\ store = prev

C6_Witness ==
  /\ last.op = "deleteNote" /\ ~last.ok
  /\ last.id \in deleted
  /\ store # {}

\* C7: updateNote(id, ...) on an id with no matching Note fails with a
\* not-found error, creates no Note and leaves every stored Note unchanged.
C7_UpdateMissingFails ==
  (last.op = "updateNote" /\ last.id \notin IdsOf(prev)) =>
    /\ ~last.ok
    /\ last.err = "NotFound"
    /\ last.note = None
    /\ store = prev

C7_Witness ==
  /\ last.op = "updateNote" /\ ~last.ok
  /\ Truthy(last.title)
  /\ store # {}

\* C8: note(id) for an id with no matching Note, never created or already
\* deleted, succeeds with an absent result and leaves the store unchanged.
C8_ReadMissingIsNull ==
  (last.op = "note" /\ last.id \notin IdsOf(prev)) =>
    /\ last.ok
    /\ last.err = ""
    /\ last.note = None
    /\ store = prev

C8_Witness ==
  /\ last.op = "note"
  /\ last.id \in deleted
  /\ store # {}

\* C9: no two stored Notes share an id, every stored Note has
\* createdAt <= updatedAt, and the id and createdAt of a stored Note are those
\* it was created with.
C9_NoteInvariants ==
  /\ \A r1, r2 \in store : r1.id = r2.id => r1 = r2
  /\ IdsOf(store) = DOMAIN born
  /\ \A r \in store :
       /\ r.createdAt <= r.updatedAt
       /\ r.createdAt = born[r.id]

C9_Witness ==
  /\ Cardinality(store) = 2
  /\ last.op = "updateNote" /\ last.ok
  /\ \E r \in store : r.createdAt < r.updatedAt

\* C10: every Note in storage has a non-empty title.
C10_TitleNonEmpty == \A r \in store : r.title # <<>>

\* the Notes A and B of the scenario, as stored
NoteA == Row(store, 1)
NoteB == Row(store, 2)
\* the latest response is that of notes() / of note(A.id)
ListedAll == last.op = "notes" /\ last.search = None
ReadA == last.op = "note" /\ last.id = 1

\* C15 as stated: from an empty store, create A then create B gives
\* notes() = [B, A]; updateNote(A.id, content = "Body1-updated") gives
\* note(A.id) that content and the title "Title1"; deleteNote(B.id) gives
\* notes() = [A].
C15_Original ==
  /\ (pc = 2 /\ ListedAll) => last.list = <<NoteB, NoteA>>
  /\ (pc = 3 /\ ReadA) => /\ last.note.some
                          /\ last.note.v.content = Body1Updated
                          /\ last.note.v.title = Title1
  /\ (pc = 4 /\ ListedAll) => last.list = <<NoteA>>

\* C15 (amended): as stated, except that notes() after the two creates is
\* [B, A] when B's createdAt is later than A's, and holds exactly A and B, in
\* either order, when the two were created at the same timestamp.
C15_Scenario ==
  /\ (pc = 2 /\ ListedAll) =>
       /\ NoteB.createdAt > NoteA.createdAt => last.list = <<NoteB, NoteA>>
       /\ last.list \in {<<NoteB, NoteA>>, <<NoteA, NoteB>>}
  /\ (pc = 3 /\ ReadA) => /\ last.note.some
                          /\ last.note.v.content = Body1Updated
                          /\ last.note.v.title = Title1
  /\ (pc = 4 /\ ListedAll) => last.list = <<NoteA>>

C15_Witness ==
  /\ pc = 4 /\ ListedAll
  /\ NoteA.updatedAt > NoteA.createdAt
  /\ NoteA.content = Body1Updated

\* C17: every successful updateNote sets updatedAt to the current time, also
\* when it supplies neither title nor content or only empty strings; such a
\* call succeeds on an existing id and leaves title, content, id and createdAt
\* unchanged.
C17_UpdateRefreshes ==
  [][\A id \in Ids, title \in Opt(Titles), content \in Opt(Contents) :
       (id \in IdsOf(store) /\ updateNote(id, title, content)) =>
         /\ last'.ok
         /\ id \in IdsOf(store')
         /\ Row(store', id).updatedAt = now
         /\ (~Truthy(title) /\ ~Truthy(content)) =>
              Row(store', id) = [Row(store, id) EXCEPT !.updatedAt = now]]_vars

C17_Witness ==
  /\ Updated
  /\ ~Truthy(last.title) /\ ~Truthy(last.content)
  /\ After.v.updatedAt > Before.v.updatedAt
  /\ After.v.title # <<>>

(* --------------------------- client claims ---------------------------- *)

CachedLists == DOMAIN cache.lists
Refs(k) == cache.lists[k].refs
AllNotes == None
\* a mutation response that is about to settle as a success
OkResponses(op) == {m \in net : m.kind = "res" /\ m.op = op /\ m.ok}
NoDup(refs) == \A i, j \in DOMAIN refs : i # j => refs[i] # refs[j]

\* C20: no cached list entry holds the same Note id twice, however a list
\* response and the update of a create interleave.
C20_NoDuplicateIds == \A k \in CachedLists : NoDup(Refs(k))

\* C12: when a create settles, the new Note is the first element of the cached
\* all-notes list and of every cached search list that includes it, and no
\* request is sent for it.
C12_CreatePrepends ==
  [][\A m \in OkResponses("createNote") :
       Settled(m, TRUE) =>
         /\ \A k \in CachedLists :
              (k = AllNotes \/ notesWhere(k, m.note.v)) =>
                /\ k \in DOMAIN cache'.lists
                /\ cache'.lists[k].refs # <<>>
                /\ Head(cache'.lists[k].refs) = m.note.v.id
         /\ net' \subseteq net]_vars
C12_Witness ==
  /\ cev.kind = "createOk"
  /\ {AllNotes, Some(<<"B">>)} \subseteq CachedLists
  /\ \A k \in CachedLists : Len(Refs(k)) = 2 /\ Head(Refs(k)) = cev.id
  /\ notesWhere(Some(<<"B">>), cache.notes[cev.id])

\* the position of the first occurrence of x
Pos(refs, x) == CHOOSE i \in DOMAIN refs : refs[i] = x /\ \A j \in 1..(i - 1) : refs[j] # x

\* C13: when a delete settles, the id is in no cached list, and every other
\* id is in the lists it was in, in the same relative order.
C13_DeleteFilters ==
  [][\A m \in OkResponses("deleteNote") :
       Settled(m, TRUE) =>
         /\ DOMAIN cache'.lists = CachedLists
         /\ \A k \in CachedLists :
              LET old == Refs(k)
                  new == cache'.lists[k].refs
              IN /\ Range(new) = Range(old) \ {m.id}
                 /\ \A x, y \in Range(new) :
                      Pos(new, x) < Pos(new, y) <=> Pos(old, x) < Pos(old, y)]_vars
C13_Witness ==
  /\ cev.kind = "deleteOk"
  /\ {AllNotes, Some(<<"B">>)} \subseteq CachedLists
  /\ \A k \in CachedLists : Len(Refs(k)) = 1 /\ cev.id \notin Range(Refs(k))
  /\ cev.id \in DOMAIN cache.notes

ListIdsOf(l) == [i \in DOMAIN l |-> l[i].id]
\* every cached list is a result the server gives for its search over rows
ListsMatch(lists, rows) ==
  \A k \in DOMAIN lists : lists[k].refs \in {ListIdsOf(l) : l \in findMany(rows, k)}

\* C11: with nothing else in flight, when a successful create, update or
\* delete settles on a cache whose lists equalled the server's before the
\* mutation, every cached list equals the server's notes(s) after it.
C11_CacheRefinesServer ==
  [][\A op \in Mutations : \A m \in OkResponses(op) :
       ( /\ net = {m}
         /\ last.op = op /\ last.ok
         /\ ListsMatch(cache.lists, prev)
         /\ Settled(m, TRUE) ) => ListsMatch(cache'.lists, store)]_vars

\* what a list view and the single-note view show
ListView(c, k) == [i \in DOMAIN c.lists[k].refs |-> c.notes[c.lists[k].refs[i]]]
NoteView(c, id) == IF c.note[id].some THEN Some(c.notes[c.note[id].v]) ELSE None
Shows(n, r) == n.title = r.title /\ n.content = r.content /\ n.updatedAt = r.updatedAt

\* C14: when an update settles, every cached view that contains the Note, list
\* entries and the single-note entry alike, shows the title, content and
\* updatedAt the mutation returned, and no request is sent for it.
C14_UpdateVisible ==
  [][\A m \in OkResponses("updateNote") :
       Settled(m, TRUE) =>
         /\ \A k \in CachedLists : \A i \in DOMAIN Refs(k) :
              Refs(k)[i] = m.id =>
                /\ k \in DOMAIN cache'.lists
                /\ i \in DOMAIN cache'.lists[k].refs
                /\ Shows(ListView(cache', k)[i], m.note.v)
         /\ (m.id \in DOMAIN cache.note /\ cache.note[m.id].some) =>
              /\ m.id \in DOMAIN cache'.note
              /\ NoteView(cache', m.id).some
              /\ Shows(NoteView(cache', m.id).v, m.note.v)
         /\ net' \subseteq net]_vars
C14_Witness ==
  /\ cev.kind = "updateOk"
  /\ AllNotes \in CachedLists /\ cev.id \in Range(Refs(AllNotes))
  /\ cev.id \in DOMAIN cache.note /\ NoteView(cache, cev.id).some
  /\ NoteView(cache, cev.id).v.title = <<"A", "b">>
  /\ NoteView(cache, cev.id).v.updatedAt > NoteView(cache, cev.id).v.createdAt

\* C16: when a create, update or delete fails, the cache is unchanged, the
\* create form stays as it was after a failed create and the note being
\* edited stays selected after a failed update.
C16_FailureKeepsState ==
  [][\A m \in net :
       (m.op \in Mutations /\ Settled(m, FALSE)) =>
         /\ cache' = cache
         /\ m.op = "createNote" => ui'.showCreateForm = ui.showCreateForm
         /\ m.op = "updateNote" => ui'.editingNote = ui.editingNote]_vars
C16_Witness ==
  /\ cev.kind = "createFail"
  /\ ui.showCreateForm
  /\ AllNotes \in CachedLists /\ Refs(AllNotes) # <<>>

Current == notesKey(ui.searchTerm)

\* C18: a list response for a term that is no longer the current one never
\* changes what is displayed for the current term, and once no list request
\* is in flight the view shows the result computed for the current term.
C18_LatestTermWins ==
  /\ [](InFlight("notes") = {} =>
          Current \in CachedLists /\ cache.lists[Current].for = Current)
  /\ [][\A m \in InFlight("notes") :
          (m.kind = "res" /\ m.search # Current /\ net' = net \ {m}) =>
            IF Current \in CachedLists
              THEN Current \in DOMAIN cache'.lists
                   /\ cache'.lists[Current] = cache.lists[Current]
              ELSE Current \notin DOMAIN cache'.lists]_vars
C18_Witness ==
  /\ Current = Some(<<"B">>)
  /\ Current \in CachedLists
  /\ \E m \in InFlight("notes") : m.kind = "res" /\ m.search = AllNotes
  /\ AllNotes \notin CachedLists

NoteRequest(id) == Req("note", id, None, None, None)

\* C19: useNote sends nothing and reports no error while its id is empty,
\* and sends exactly one request, for note(id), when it is given an id that
\* is neither cached nor already requested.
C19_SkipWithoutId ==
  /\ []((\A m \in InFlight("note") : m.id # 0) /\ (ui.noteId = 0 => ~ui.noteError))
  /\ [][\A id \in {0} \cup Ids :
          SelectNote(id) =>
            /\ id = 0 => net' = net
            /\ (id # 0 /\ id \notin DOMAIN cache.note
                  /\ \A m \in InFlight("note") : m.id # id) =>
                 /\ net' \ net = {NoteRequest(id)}
                 /\ NoteRequest(id) \notin net]_vars
C19_Witness ==
  /\ ui.noteId # 0
  /\ InFlight("note") = {NoteRequest(ui.noteId)}
  /\ cache.note = <<>>

\* useNote(id) with the cache as it is: cache-first, the cached note(id) field
\* is the result when there is one
Served(c, id) == id \in DOMAIN c.note /\ NoteView(c, id).some

\* C22: when a delete settles, a single-note result for that id that useNote
\* cached earlier is no longer served from the cache.
C22_DeletedNotServed ==
  [][\A m \in OkResponses("deleteNote") :
       (Served(cache, m.id) /\ Settled(m, TRUE)) => ~Served(cache', m.id)]_vars

\* the two operations of the race, as request or as response
RaceUpdate == CHOOSE m \in net : m.op = "updateNote"
RaceDelete == CHOOSE m \in net : m.op = "deleteNote"
\* what updateNote answers when it runs first, at some instant with some data
UpdatedFirst ==
  {findUnique(update(RaceStore, RaceDelete.id, t, updateData(title, content)), RaceDelete.id) :
     t \in 0..MaxTime, title \in Opt(Titles), content \in Opt(Contents)}

\* C21: concurrent updateNote and deleteNote on one existing id end as one of
\* the two serial orders: the update succeeds and the delete removes the Note,
\* or the delete succeeds and the update fails with not-found; the Note is
\* never in storage once the delete has succeeded, and no other Note changes.
C21_SerialOutcome ==
  LET u == RaceUpdate
      d == RaceDelete
  IN /\ d.kind = "res" => d.ok /\ d.id \notin IdsOf(store)
     /\ d.kind = "req" => d.id \in IdsOf(store)
     /\ \A r \in RaceStore : r.id # d.id => r \in store
     /\ IdsOf(store) \subseteq IdsOf(RaceStore)
     /\ (u.kind = "res" /\ d.kind = "res") =>
          /\ store = delete(RaceStore, d.id)
          /\ \/ u.ok /\ u.note \in UpdatedFirst
             \/ ~u.ok /\ u.note = None
     /\ (u.kind = "res" /\ d.kind = "req") =>
          u.ok /\ u.note = findUnique(store, d.id) /\ u.note \in UpdatedFirst
     /\ (last.op = "updateNote" /\ ~last.ok) =>
          last.err = "NotFound" /\ d.kind = "res" /\ store = prev
C21_Witness ==
  /\ RaceUpdate.kind = "res" /\ RaceDelete.kind = "res"
  /\ ~RaceUpdate.ok /\ RaceDelete.ok
  /\ last.op = "updateNote" /\ last.err = "NotFound"
  /\ store = {SeedNote2}
====
